---- MODULE Spec2Model ----
(***************************************************************************)
(* Model of roboarm's host client (host/src/roboarm/client.py) and of the  *)
(* way the command line builds its clients (host/src/roboarm/cli.py).      *)
(*                                                                         *)
(* Text is modelled as sequences of one-character strings, so that the     *)
(* string operations of the code (startswith, strip, split, join, int,     *)
(* f-string formatting) are computed rather than assumed.  The serial      *)
(* input buffer holds whole raw lines, each ending in a newline; a read of *)
(* a partial line is not modelled.  Time is a discrete clock that the      *)
(* environment advances.                                                   *)
(***************************************************************************)
EXTENDS Integers, Sequences, FiniteSets, TLC

VARIABLES
    mode,            \* self._mode: "serial" or "http", fixed by __init__
    serial_,         \* self._serial: 0 for None, else the handle it refers to
    http_client,     \* self._http_client: 0 for None, else the handle
    opened,          \* number of transport handles this client has opened so far
    isOpen,          \* set of handles that are open
    closeCalls,      \* handle -> number of close() calls disconnect made on it
    inbuf,           \* raw lines waiting in the serial input buffer
    clock,           \* time.time(), counted from the call of the operation in
                     \* progress; 0 between calls
    op,              \* public operation in progress, "none" between calls
    pc,              \* position inside the operation in progress
    written,         \* what the last write put on the transport now connected
    nwrites,         \* number of writes the last call made
    response_lines,  \* _send_serial's local list of captured lines, kept until
                     \* the next call
    timeout_end,     \* _send_serial's deadline
    end_time,        \* wait_for_idle's deadline
    seen,            \* moving flag of each status poll of the last wait_for_idle
                     \* call, emptied by the next call
    result,          \* what the last finished call returned or raised
    args,            \* arguments of the last call when it was a move, else NoArgs
    flushed,         \* raw lines that connect's reset_input_buffer discarded on
                     \* the connection now in use
    cli              \* "lib": the client is used directly; else the position of
                     \* a command of cli.py that owns the client

vars == <<mode, serial_, http_client, opened, isOpen, closeCalls, inbuf, clock,
          op, pc, written, nwrites, response_lines, timeout_end,
          end_time, seen, result, args, flushed, cli>>

----------------------------------------------------------------------------
\* Bounds of the model.

MaxHandles == 2       \* handles one client may open in a run
MaxClock == 6         \* the clock stops here
Timeout == 2          \* self._timeout, in clock ticks
MaxWait == 3          \* largest timeout argument given to wait_for_idle
PollInterval == 1     \* poll_interval argument of wait_for_idle, in clock ticks
MaxBuf == 1           \* raw lines the serial input buffer holds at once
MaxLines == 2         \* lines captured in one exchange

----------------------------------------------------------------------------
\* Text.

NL == "\n"
Whitespace == {" ", NL, "\r", "\t"}
Digits == <<"0", "1", "2", "3", "4", "5", "6", "7", "8", "9">>

\* str.startswith
StartsWith(s, p) ==
    /\ Len(s) >= Len(p)
    /\ SubSeq(s, 1, Len(p)) = p

\* str.strip: leading and trailing whitespace removed
RECURSIVE LStrip(_)
LStrip(s) ==
    IF s # <<>> /\ Head(s) \in Whitespace THEN LStrip(Tail(s)) ELSE s

RECURSIVE RStrip(_)
RStrip(s) ==
    IF s # <<>> /\ s[Len(s)] \in Whitespace
    THEN RStrip(SubSeq(s, 1, Len(s) - 1))
    ELSE s

Strip(s) == RStrip(LStrip(s))

\* "\n".join(lines)
RECURSIVE Join(_)
Join(lines) ==
    IF lines = <<>> THEN <<>>
    ELSE IF Len(lines) = 1 THEN lines[1]
    ELSE lines[1] \o <<NL>> \o Join(Tail(lines))

\* str.split(): the maximal runs of non-whitespace characters
RECURSIVE SplitWs(_, _)
SplitWs(s, cur) ==
    IF s = <<>> THEN (IF cur = <<>> THEN <<>> ELSE <<cur>>)
    ELSE IF Head(s) \in Whitespace
         THEN (IF cur = <<>> THEN <<>> ELSE <<cur>>) \o SplitWs(Tail(s), <<>>)
         ELSE SplitWs(Tail(s), Append(cur, Head(s)))

Split(s) == SplitWs(s, <<>>)

\* str.split(sep): every field between separators, empty ones included
RECURSIVE SplitSep(_, _, _)
SplitSep(s, sep, cur) ==
    IF s = <<>> THEN <<cur>>
    ELSE IF Head(s) = sep
         THEN <<cur>> \o SplitSep(Tail(s), sep, <<>>)
         ELSE SplitSep(Tail(s), sep, Append(cur, Head(s)))

SplitOn(s, sep) == SplitSep(s, sep, <<>>)

\* c in s
Contains(s, c) == \E i \in 1..Len(s) : s[i] = c

DigitVal(c) == CHOOSE d \in 0..9 : Digits[d + 1] = c
IsDigit(c) == \E d \in 0..9 : Digits[d + 1] = c

RECURSIVE NatToStr(_)
NatToStr(n) ==
    IF n < 10 THEN <<Digits[n + 1]>>
    ELSE NatToStr(n \div 10) \o <<Digits[(n % 10) + 1]>>

\* f"{n}" for an int
IntToStr(n) == IF n < 0 THEN <<"-">> \o NatToStr(0 - n) ELSE NatToStr(n)

RECURSIVE StrToNat(_, _)
StrToNat(s, acc) ==
    IF s = <<>> THEN acc ELSE StrToNat(Tail(s), 10 * acc + DigitVal(Head(s)))

\* int(s) accepts an optional sign followed by at least one digit
IsIntText(s) ==
    LET body == IF s # <<>> /\ Head(s) \in {"-", "+"} THEN Tail(s) ELSE s
    IN  /\ body # <<>>
        /\ \A i \in 1..Len(body) : IsDigit(body[i])

ParseInt(s) ==
    IF Head(s) = "-" THEN 0 - StrToNat(Tail(s), 0)
    ELSE IF Head(s) = "+" THEN StrToNat(Tail(s), 0)
    ELSE StrToNat(s, 0)

----------------------------------------------------------------------------
\* Protocol text.

OkMarker == <<"o", "k">>
ErrorMarker == <<"e", "r", "r", "o", "r", ":">>
NoResponseMessage ==
    <<"N", "o", " ", "r", "e", "s", "p", "o", "n", "s", "e", " ", "f", "r", "o", "m", " ">> \o
    <<"c", "o", "n", "t", "r", "o", "l", "l", "e", "r">>

CmdEnable == <<"M", "1", "7">>
CmdDisable == <<"M", "1", "8">>
CmdEmergencyStop == <<"M", "1", "1", "2">>
CmdHome == <<"G", "2", "8">>
CmdStatus == <<"?">>

\* Raw lines the controller may put on the serial line.
LineOk == <<"o", "k", "\r", NL>>
LineError == <<"e", "r", "r", "o", "r", ":", "9", NL>>
LineBusy == <<"b", "u", "s", "y", NL>>
LineBlank == <<"\r", NL>>
LineBoot == <<"r", "s", "t", ":", "1", "\r", NL>>
LineStatusEM == <<"E", "M", " ", "P", ":", "0", ",", "5", "0", "0", ",", "1", "0", "0", "0", ",", "0", ",", "0", ",", "0", NL>>
LineStatusIdle == <<"-", " ", "P", ":", "1", "0", ",", "2", "0", ",", "3", "0", ",", "4", "0", ",", "5", "0", ",", "6", "0", NL>>
LineStatusSeven == <<"E", " ", "P", ":", "1", ",", "2", ",", "3", ",", "4", ",", "5", ",", "6", ",", "7", NL>>

StatusLines == {LineStatusEM, LineStatusIdle, LineStatusSeven}
ControllerLines == {LineOk, LineError, LineBusy, LineBlank} \cup StatusLines

\* Joint arguments of move: None is <<>>, a given value v is <<v>>.
None == <<>>
Some(v) == <<v>>
NoArgs == [joints |-> <<>>, relative |-> FALSE]

----------------------------------------------------------------------------
\* Values returned or raised.

NoResult == [kind |-> "none"]
ReturnsNone == [kind |-> "None"]
Raise(e) == [kind |-> "raise", error |-> e]
CommandResult(s, m) == [kind |-> "dict", success |-> s, message |-> m]
EmptyDict == <<>>

\* a reading of the response that looks for the failure marker on the first
\* captured line instead of the last
ParseResponse_FirstLine(lines) ==
    IF lines = <<>> THEN CommandResult(FALSE, NoResponseMessage)
    ELSE IF StartsWith(lines[1], ErrorMarker)
         THEN CommandResult(FALSE, Join(lines))
         ELSE CommandResult(TRUE, Join(lines))

\* a reading of the response without the test for no captured line
ParseResponse_NoEmptyCheck(lines) ==
    IF lines # <<>> /\ StartsWith(lines[Len(lines)], ErrorMarker)
    THEN CommandResult(FALSE, Join(lines))
    ELSE CommandResult(TRUE, Join(lines))

\* _send_serial: what the captured lines are turned into
ParseResponse(lines) ==
    IF lines = <<>> THEN CommandResult(FALSE, NoResponseMessage)
    ELSE IF StartsWith(lines[Len(lines)], ErrorMarker)
         THEN CommandResult(FALSE, Join(lines))
         ELSE CommandResult(TRUE, Join(lines))

\* a test that ends the read loop on "ok" only
IsTerminator_OkOnly(line) == StartsWith(line, OkMarker)

\* _send_serial: the test that ends the read loop
IsTerminator(line) == StartsWith(line, OkMarker) \/ StartsWith(line, ErrorMarker)

\* position keys numbered from the enumerate index itself
JointKey_ZeroBased(i) == <<"j">> \o IntToStr(i)

\* f"j{i + 1}" for the enumerate index i, which starts at 0
JointKey(i) == <<"j">> \o IntToStr(i + 1)

\* status, serial branch: the positions loop over pos_values
PositionsOf(pos_values) ==
    [k \in {JointKey(i) : i \in 0..(Len(pos_values) - 1)} |->
        ParseInt(pos_values[(CHOOSE i \in 0..(Len(pos_values) - 1) : JointKey(i) = k) + 1])]

\* status, serial branch: the quick status text to a RoboarmStatus
ParseStatus(message) ==
    LET parts == Split(message)
    IN  IF parts = <<>> THEN Raise("IndexError")
        ELSE LET enabled == Contains(parts[1], "E")
                 moving == Contains(parts[1], "M")
                 hasP == Len(parts) > 1 /\ StartsWith(parts[2], <<"P", ":">>)
                 pos_values == SplitOn(SubSeq(parts[2], 3, Len(parts[2])), ",")
             IN  IF hasP /\ \E i \in 1..Len(pos_values) : ~IsIntText(pos_values[i])
                 THEN Raise("ValueError")
                 ELSE [kind |-> "status",
                       enabled |-> enabled,
                       moving |-> moving,
                       positions |-> IF hasP THEN PositionsOf(pos_values) ELSE EmptyDict,
                       targets |-> EmptyDict,
                       distances |-> EmptyDict,
                       ip |-> None,
                       uptime |-> None]

\* dict.get(key, default)
Get(data, key, default) == IF key \in DOMAIN data THEN data[key] ELSE default

\* RoboarmStatus.from_dict
from_dict(data) ==
    [kind |-> "status",
     enabled |-> Get(data, "enabled", FALSE),
     moving |-> Get(data, "moving", FALSE),
     positions |-> Get(data, "positions", EmptyDict),
     targets |-> Get(data, "targets", EmptyDict),
     distances |-> Get(data, "distances", EmptyDict),
     ip |-> Get(data, "ip", None),
     uptime |-> Get(data, "uptime", None)]

\* move: the tokens appended for joints i, i+1, ... of the argument list
RECURSIVE JointTokens(_, _)
JointTokens(joints, i) ==
    IF i > Len(joints) THEN <<>>
    ELSE (IF joints[i] # None
          THEN <<" ", "J">> \o IntToStr(i) \o <<":">> \o IntToStr(joints[i][1])
          ELSE <<>>) \o JointTokens(joints, i + 1)

\* a command text that tests the joint values for truth, so that a joint
\* given 0 gets no token
MoveCommand_SkipsZero(joints, relative) ==
    (IF relative THEN <<"G", "1">> ELSE <<"G", "0">>)
        \o JointTokens([i \in 1..Len(joints) |->
                           IF joints[i] = Some(0) THEN None ELSE joints[i]], 1)

\* move: the command text
MoveCommand(joints, relative) ==
    (IF relative THEN <<"G", "1">> ELSE <<"G", "0">>) \o JointTokens(joints, 1)

\* a frame that ends the command with carriage return and newline
SerialFrame_CRLF(cmd) == cmd \o <<"\r", NL>>

\* _send_serial: f"{command}\n".encode()
SerialFrame(cmd) == cmd \o <<NL>>

\* _send_http: the json payload {"command": command}
HttpPayload(cmd) == [command |-> cmd]

----------------------------------------------------------------------------
\* Inputs and replies.

UrlSchemes == {"serial", "http", "https", "ftp"}

\* __init__: the connection type of a URL scheme
ModeOf(scheme) ==
    IF scheme = "serial" THEN "serial"
    ELSE IF scheme \in {"http", "https"} THEN "http"
    ELSE "unsupported"

RawCommands == {<<"G", "9", "2">>}

\* joint arguments move is called with in the main specification
SmallMoves == {<<Some(1000), Some(500), None, None, None, None>>}

\* joint arguments move is called with in the specification of the encoder
\* every subset of the joints, each joint with a value of its own
MoveValues == <<-12, 500, 7, 0, 1000, -3>>
AllMoves ==
    {[i \in 1..6 |-> IF i \in S THEN Some(MoveValues[i]) ELSE None] : S \in SUBSET (1..6)}

\* json bodies the controller may answer POST /api/command with
HttpCommandReplies ==
    {CommandResult(TRUE, OkMarker), CommandResult(FALSE, ErrorMarker \o <<"9">>)}

\* json bodies the controller may answer GET /api/status with
HttpStatusReplies ==
    {[enabled |-> TRUE, moving |-> TRUE],
     [enabled |-> TRUE],
     [moving |-> FALSE, ip |-> <<"1">>, uptime |-> 7]}

Handles == 1..MaxHandles

----------------------------------------------------------------------------
\* Construction.

\* a construction that opens a transport before it looks at the scheme
Constructed_OpensFirst(by) ==
    /\ \E scheme \in UrlSchemes :
          /\ mode = ModeOf(scheme)
          /\ result = IF ModeOf(scheme) = "unsupported"
                      THEN Raise("ValueError") ELSE NoResult
          /\ opened = IF ModeOf(scheme) = "unsupported" THEN 1 ELSE 0
          /\ isOpen = IF ModeOf(scheme) = "unsupported" THEN {1} ELSE {}
    /\ cli = by
    /\ serial_ = 0
    /\ http_client = 0
    /\ closeCalls = [h \in Handles |-> 0]
    /\ inbuf = <<>>
    /\ clock = 0
    /\ op = "none"
    /\ pc = "idle"
    /\ written = <<>>
    /\ nwrites = 0
    /\ response_lines = <<>>
    /\ timeout_end = 0
    /\ end_time = 0
    /\ seen = <<>>
    /\ args = NoArgs
    /\ flushed = <<>>


Constructed(by) ==
    /\ \E scheme \in UrlSchemes :
          /\ mode = ModeOf(scheme)
          /\ result = IF ModeOf(scheme) = "unsupported"
                      THEN Raise("ValueError") ELSE NoResult
    /\ cli = by
    /\ serial_ = 0
    /\ http_client = 0
    /\ opened = 0
    /\ isOpen = {}
    /\ closeCalls = [h \in Handles |-> 0]
    /\ inbuf = <<>>
    /\ clock = 0
    /\ op = "none"
    /\ pc = "idle"
    /\ written = <<>>
    /\ nwrites = 0
    /\ response_lines = <<>>
    /\ timeout_end = 0
    /\ end_time = 0
    /\ seen = <<>>
    /\ args = NoArgs
    /\ flushed = <<>>

\* a client constructed by its user
Init == Constructed("lib")

\* a command of cli.py about to call get_client(url)
InitCli == Constructed("start")

\* the client exists and no call is in progress
Ready == mode \in {"serial", "http"} /\ op = "none"

----------------------------------------------------------------------------
\* Connection lifecycle.

\* a reset that leaves the buffer as it is
reset_input_buffer_Keeps(buf) == buf

\* reset_input_buffer
reset_input_buffer(buf) == <<>>

\* connect: a new handle is opened and bound; the one bound before is not closed.
\* The two-second pause is below the clock's resolution; whatever the controller
\* printed while it lasted is in the buffer when it is reset.
connect_after(boot) ==
    /\ opened < MaxHandles
    /\ opened' = opened + 1
    /\ isOpen' = isOpen \cup {opened + 1}
    /\ IF mode = "serial"
       THEN /\ serial_' = opened + 1
            /\ inbuf' = reset_input_buffer(boot)
            /\ flushed' = boot
            /\ UNCHANGED http_client
       ELSE /\ http_client' = opened + 1
            /\ UNCHANGED <<serial_, inbuf, flushed>>
    /\ args' = NoArgs
    /\ result' = ReturnsNone
    /\ written' = <<>>
    /\ nwrites' = 0
    /\ response_lines' = <<>>
    /\ seen' = <<>>
    /\ UNCHANGED <<mode, closeCalls, clock, op, pc, timeout_end, end_time>>

\* connect on a controller that prints nothing while the port is opened
connect == connect_after(<<>>)

\* connect: serial.Serial(...) raises, nothing is bound
connect_fails ==
    /\ mode = "serial"
    /\ args' = NoArgs
    /\ result' = Raise("SerialException")
    /\ nwrites' = 0
    /\ response_lines' = <<>>
    /\ seen' = <<>>
    /\ UNCHANGED <<mode, flushed, serial_, http_client, opened, isOpen, closeCalls, inbuf,
                   clock, op, pc, written, timeout_end, end_time>>

\* a disconnect that closes what is bound and keeps the references
disconnect_KeepsReference ==
    /\ isOpen' = isOpen \ {serial_, http_client}
    /\ closeCalls' = [h \in Handles |->
                        IF h \in {serial_, http_client}
                        THEN closeCalls[h] + 1 ELSE closeCalls[h]]
    /\ inbuf' = <<>>
    /\ args' = NoArgs
    /\ result' = ReturnsNone
    /\ written' = <<>>
    /\ nwrites' = 0
    /\ response_lines' = <<>>
    /\ seen' = <<>>
    /\ UNCHANGED <<mode, flushed, serial_, http_client, opened, clock, op, pc,
                   timeout_end, end_time>>

\* disconnect
disconnect ==
    /\ isOpen' = isOpen \ {serial_, http_client}
    /\ closeCalls' = [h \in Handles |->
                        IF h \in {serial_, http_client}
                        THEN closeCalls[h] + 1 ELSE closeCalls[h]]
    /\ serial_' = 0
    /\ http_client' = 0
    /\ inbuf' = <<>>
    /\ flushed' = <<>>
    /\ args' = NoArgs
    /\ result' = ReturnsNone
    /\ written' = <<>>
    /\ nwrites' = 0
    /\ response_lines' = <<>>
    /\ seen' = <<>>
    /\ UNCHANGED <<mode, opened, clock, op, pc, timeout_end, end_time>>

Connect == Ready /\ cli = "lib" /\ connect /\ UNCHANGED cli

\* what the controller may have printed by the end of connect's pause
BootOutputs == {<<>>, <<LineBoot>>, <<LineBoot, LineOk>>}

\* connect on a controller that prints its startup lines while the port is opened
ConnectBoot ==
    /\ Ready /\ cli = "lib" /\ UNCHANGED cli
    /\ \E boot \in BootOutputs : connect_after(boot)

ConnectFails == Ready /\ cli = "lib" /\ connect_fails /\ UNCHANGED cli

Disconnect == Ready /\ cli = "lib" /\ disconnect /\ UNCHANGED cli

\* cli.get_client: RoboarmClient(url), then connect()
get_client ==
    /\ cli = "start"
    /\ IF mode = "unsupported"
       THEN cli' = "exited" /\ UNCHANGED <<mode, flushed, serial_, http_client,
                   opened, isOpen, closeCalls, inbuf, clock, op, pc, written,
                   nwrites, response_lines, timeout_end, end_time, seen,
                   result, args>>
       ELSE \/ connect /\ cli' = "client"
            \/ connect_fails /\ cli' = "exited"

\* __enter__, as the with statement of a cli command calls it
Enter ==
    /\ cli = "client"
    /\ \/ connect /\ cli' = "with"
       \/ connect_fails /\ cli' = "exited"

\* __exit__, as the with statement calls it when its body returned or raised
Exit ==
    /\ cli \in {"called", "moved"}
    /\ op = "none"
    /\ disconnect
    /\ cli' = "exited"

\* A handle nothing refers to any more may be closed by its finalizer, at any
\* time or never.
Finalize ==
    /\ \E h \in isOpen \ {serial_, http_client} : isOpen' = isOpen \ {h}
    /\ UNCHANGED <<mode, flushed, serial_, http_client, opened, closeCalls,
                   inbuf, clock, op, pc, written, nwrites, response_lines,
                   timeout_end, end_time, seen, result, args, cli>>

----------------------------------------------------------------------------
\* Commands.

\* who may call an operation: a direct user at any time, a cli command once
\* inside its with block
CliCalls(next) ==
    /\ cli \in {"lib", "with"}
    /\ cli' = IF cli = "with" THEN next ELSE cli

\* the operation in progress returns or raises r
Return(r) ==
    /\ result' = r
    /\ op' = "none"
    /\ pc' = "idle"
    /\ clock' = 0
    /\ timeout_end' = 0
    /\ end_time' = 0

\* the polls of the wait_for_idle call in progress; any other call starts afresh
Polls(o) == IF o = "wait_for_idle" THEN seen ELSE <<>>

\* the caller gets the exception `e`; n writes were made since the call
Raises(e, o, n) ==
    /\ Return(Raise(e))
    /\ nwrites' = n
    /\ response_lines' = <<>>
    /\ seen' = Polls(o)
    /\ UNCHANGED <<mode, flushed, serial_, http_client, opened, isOpen, closeCalls, inbuf,
                   written>>

\* a _send_serial that writes the command a second time
serial_write_Twice(cmd, o, n) ==
    /\ written' = SerialFrame(cmd)
    /\ nwrites' = n + 2
    /\ response_lines' = <<>>
    /\ timeout_end' = clock + Timeout
    /\ op' = o
    /\ pc' = "read"
    /\ result' = NoResult
    /\ seen' = Polls(o)
    /\ UNCHANGED <<mode, flushed, serial_, http_client, opened, isOpen, closeCalls, inbuf,
                   clock, end_time>>

\* _send_serial up to the read loop: write, flush, empty list, deadline
\* (reached with self._serial set)
serial_write(cmd, o, n) ==
    /\ written' = SerialFrame(cmd)
    /\ nwrites' = n + 1
    /\ response_lines' = <<>>
    /\ timeout_end' = clock + Timeout
    /\ op' = o
    /\ pc' = "read"
    /\ result' = NoResult
    /\ seen' = Polls(o)
    /\ UNCHANGED <<mode, flushed, serial_, http_client, opened, isOpen, closeCalls, inbuf,
                   clock, end_time>>

\* a wait_for_idle that returns at the first poll that reports moving
Deliver_InvertedTest(o, st) ==
    IF st.kind = "raise"
    THEN Return(st) /\ seen' = Polls(o)
    ELSE IF o = "status"
    THEN Return(st) /\ seen' = Polls(o)
    ELSE IF o = "get_positions"
    THEN Return([kind |-> "positions", positions |-> st.positions])
         /\ seen' = Polls(o)
    ELSE /\ seen' = Append(seen, st.moving)
         /\ IF st.moving
            THEN Return([kind |-> "bool", value |-> TRUE])
            ELSE /\ pc' = "sleep"
                 /\ timeout_end' = 0
                 /\ UNCHANGED <<op, result, clock, end_time>>

\* what operation o, the caller of self.status(), does with its outcome st
Deliver(o, st) ==
    IF st.kind = "raise"
    THEN Return(st) /\ seen' = Polls(o)
    ELSE IF o = "status"
    THEN Return(st) /\ seen' = Polls(o)
    ELSE IF o = "get_positions"
    THEN Return([kind |-> "positions", positions |-> st.positions])
         /\ seen' = Polls(o)
    ELSE \* wait_for_idle: if not status.moving: return True, else sleep
         /\ seen' = Append(seen, st.moving)
         /\ IF ~st.moving
            THEN Return([kind |-> "bool", value |-> TRUE])
            ELSE /\ pc' = "sleep"
                 /\ timeout_end' = 0
                 /\ UNCHANGED <<op, result, clock, end_time>>

\* _send_serial after the read loop, and the caller's use of what it returns
Complete(lines) ==
    IF op = "command"
    THEN Return(ParseResponse(lines)) /\ UNCHANGED seen
    ELSE Deliver(op, ParseStatus(ParseResponse(lines).message))

\* _send_http (reached with self._http_client set): the post and response.json()
http_post(cmd, o, n) ==
    /\ written' = HttpPayload(cmd)
    /\ nwrites' = n + 1
    /\ response_lines' = <<>>
    /\ seen' = Polls(o)
    /\ \E r \in HttpCommandReplies \cup {Raise("TransportError")} : Return(r)
    /\ UNCHANGED <<mode, flushed, serial_, http_client, opened, isOpen, closeCalls, inbuf>>

\* a send_command without the tests for a missing handle
send_command_Unchecked(cmd, o, n) ==
    IF mode = "serial"
    THEN serial_write(cmd, o, n)
    ELSE http_post(cmd, o, n)

\* send_command(cmd) called by operation o, which made n writes so far: to the
\* start of the read loop (serial) or to the return (http)
send_command(cmd, o, n) ==
    IF mode = "serial"
    THEN IF serial_ = 0
         THEN Raises("RuntimeError", o, n)
         ELSE serial_write(cmd, o, n)
    ELSE IF http_client = 0
         THEN Raises("RuntimeError", o, n)
         ELSE http_post(cmd, o, n)

\* status(), called by operation o: the serial branch sends "?", the http
\* branch gets /api/status
status(o, n) ==
    IF mode = "serial"
    THEN send_command(CmdStatus, o, n)
    ELSE IF http_client = 0
         THEN Raises("RuntimeError", o, n)
         ELSE /\ written' = [get |-> "/api/status"]
              /\ nwrites' = n + 1
              /\ response_lines' = <<>>
              /\ \E st \in {from_dict(d) : d \in HttpStatusReplies}
                            \cup {Raise("TransportError")} : Deliver(o, st)
              /\ UNCHANGED <<mode, flushed, serial_, http_client, opened, isOpen,
                             closeCalls, inbuf>>

----------------------------------------------------------------------------
\* Public operations.

SendCommand ==
    /\ Ready /\ CliCalls("called")
    /\ args' = NoArgs
    /\ \E raw \in RawCommands : send_command(raw, "command", 0)

Enable ==
    /\ Ready /\ CliCalls("called")
    /\ args' = NoArgs
    /\ send_command(CmdEnable, "command", 0)

Disable ==
    /\ Ready /\ CliCalls("called")
    /\ args' = NoArgs
    /\ send_command(CmdDisable, "command", 0)

EmergencyStop ==
    /\ Ready /\ CliCalls("called")
    /\ args' = NoArgs
    /\ send_command(CmdEmergencyStop, "command", 0)

Home ==
    /\ Ready /\ CliCalls("called")
    /\ args' = NoArgs
    /\ send_command(CmdHome, "command", 0)

move(joints, relative) ==
    /\ Ready /\ CliCalls("moved")
    /\ args' = [joints |-> joints, relative |-> relative]
    /\ send_command(MoveCommand(joints, relative), "command", 0)

Move == \E joints \in SmallMoves, relative \in BOOLEAN : move(joints, relative)

Status ==
    /\ Ready /\ CliCalls("called")
    /\ args' = NoArgs
    /\ status("status", 0)

GetPositions ==
    /\ Ready /\ cli = "lib" /\ UNCHANGED cli
    /\ args' = NoArgs
    /\ status("get_positions", 0)

\* wait_for_idle: the call, which fixes the deadline.  cli.move calls it after
\* a move that succeeded, when --wait is given.  The call is allowed only if
\* the clock has room for the deadline and the last poll.
WaitForIdle ==
    /\ Ready
    /\ \/ cli = "lib" /\ UNCHANGED cli
       \/ /\ cli = "moved" /\ result.kind = "dict" /\ result.success = TRUE
          /\ cli' = "called"
    /\ \E timeout \in 0..MaxWait :
          /\ timeout + Timeout + PollInterval <= MaxClock
          /\ end_time' = clock + timeout
    /\ args' = NoArgs
    /\ op' = "wait_for_idle"
    /\ pc' = "wcheck"
    /\ seen' = <<>>
    /\ nwrites' = 0
    /\ response_lines' = <<>>
    /\ result' = NoResult
    /\ UNCHANGED <<mode, flushed, serial_, http_client, opened, isOpen, closeCalls, inbuf,
                   clock, written, timeout_end>>

\* a loop test that still passes at the deadline itself
WaitCheck_PollsAtDeadline ==
    /\ op = "wait_for_idle" /\ pc = "wcheck"
    /\ IF clock <= end_time
       THEN status("wait_for_idle", nwrites)
       ELSE /\ Return([kind |-> "bool", value |-> FALSE])
            /\ UNCHANGED <<mode, flushed, serial_, http_client, opened, isOpen, closeCalls,
                           inbuf, written, nwrites, response_lines, seen>>
    /\ UNCHANGED <<cli, args>>

\* wait_for_idle: the loop test, then self.status() or return False
WaitCheck ==
    /\ op = "wait_for_idle" /\ pc = "wcheck"
    /\ IF clock < end_time
       THEN status("wait_for_idle", nwrites)
       ELSE /\ Return([kind |-> "bool", value |-> FALSE])
            /\ UNCHANGED <<mode, flushed, serial_, http_client, opened, isOpen, closeCalls,
                           inbuf, written, nwrites, response_lines, seen>>
    /\ UNCHANGED <<cli, args>>

\* wait_for_idle: time.sleep(poll_interval)
Sleep ==
    /\ op = "wait_for_idle" /\ pc = "sleep"
    /\ clock + PollInterval <= MaxClock
    /\ clock' = clock + PollInterval
    /\ pc' = "wcheck"
    /\ UNCHANGED <<mode, flushed, serial_, http_client, opened, isOpen, closeCalls, inbuf,
                   op, written, nwrites, response_lines, timeout_end,
                   end_time, seen, result, args, cli>>

\* a read loop that moves its deadline to now + timeout at each line it takes
ReadLine_DeadlineDrift ==
    /\ pc = "read"
    /\ clock < timeout_end
    /\ inbuf # <<>>
    /\ LET line == Strip(Head(inbuf))
           lines == IF line # <<>> THEN Append(response_lines, line)
                    ELSE response_lines
       IN  /\ inbuf' = Tail(inbuf)
           /\ response_lines' = lines
           /\ IF line # <<>> /\ IsTerminator(line)
              THEN Complete(lines)
              ELSE /\ timeout_end' = clock + Timeout
                   /\ UNCHANGED <<op, pc, result, seen, clock, end_time>>
    /\ UNCHANGED <<mode, flushed, serial_, http_client, opened, isOpen, closeCalls,
                   written, nwrites, args, cli>>

\* _send_serial: a pass of the read loop that finds input waiting
ReadLine ==
    /\ pc = "read"
    /\ clock < timeout_end
    /\ inbuf # <<>>
    /\ LET line == Strip(Head(inbuf))
           lines == IF line # <<>> THEN Append(response_lines, line)
                    ELSE response_lines
       IN  /\ inbuf' = Tail(inbuf)
           /\ response_lines' = lines
           /\ IF line # <<>> /\ IsTerminator(line)
              THEN Complete(lines)
              ELSE UNCHANGED <<op, pc, result, seen, clock, timeout_end, end_time>>
    /\ UNCHANGED <<mode, flushed, serial_, http_client, opened, isOpen, closeCalls,
                   written, nwrites, args, cli>>

\* _send_serial: the loop test fails, the deadline has passed
ReadTimeout ==
    /\ pc = "read"
    /\ clock >= timeout_end
    /\ Complete(response_lines)
    /\ UNCHANGED <<mode, flushed, serial_, http_client, opened, isOpen, closeCalls, inbuf,
                   written, nwrites, response_lines, args, cli>>

----------------------------------------------------------------------------
\* Environment.

\* the controller prints `line`
EmitLine(line) ==
    /\ mode = "serial" /\ serial_ # 0
    /\ Len(inbuf) < MaxBuf
    /\ pc = "read" => Len(response_lines) + Len(inbuf) < MaxLines
    /\ inbuf' = Append(inbuf, line)
    /\ UNCHANGED <<mode, flushed, serial_, http_client, opened, isOpen, closeCalls, clock,
                   op, pc, written, nwrites, response_lines, timeout_end,
                   end_time, seen, result, args, cli>>

\* the controller prints a line; a status line only once it was sent the
\* status query, and until it is sent something else
Emit ==
    /\ mode = "serial"
    /\ \E line \in ControllerLines :
          /\ line \in StatusLines => written = SerialFrame(CmdStatus)
          /\ EmitLine(line)

\* the controller acknowledges the command it was sent
Acknowledge ==
    /\ pc = "read"
    /\ inbuf = <<>>
    /\ EmitLine(LineOk)

\* time passes while an operation is in progress; it is followed until the
\* deadlines in force have passed
Tick ==
    /\ op # "none"
    /\ clock < timeout_end \/ clock < end_time
    /\ clock' = clock + 1
    /\ UNCHANGED <<mode, flushed, serial_, http_client, opened, isOpen, closeCalls, inbuf,
                   op, pc, written, nwrites, response_lines, timeout_end,
                   end_time, seen, result, args, cli>>

Next ==
    \/ Connect \/ ConnectFails \/ Disconnect
    \/ Finalize
    \/ SendCommand \/ Enable \/ Disable \/ EmergencyStop \/ Home \/ Move
    \/ Status \/ GetPositions
    \/ WaitForIdle \/ WaitCheck \/ Sleep
    \/ ReadLine \/ ReadTimeout
    \/ Emit \/ Tick

Spec == Init /\ [][Next]_vars

\* One run of a command of cli.py: get_client, the with block around one
\* operation (a move may be followed by wait_for_idle), and the block's exit.
NextCli ==
    \/ get_client \/ Enter \/ Exit
    \/ Finalize
    \/ SendCommand \/ Enable \/ Disable \/ EmergencyStop \/ Home \/ Move
    \/ Status
    \/ WaitForIdle \/ WaitCheck \/ Sleep
    \/ ReadLine \/ ReadTimeout
    \/ Emit \/ Tick

SpecCli == InitCli /\ [][NextCli]_vars

\* The encoder of move over every choice of joints, on a controller that
\* acknowledges each command.
MoveAny == \E joints \in AllMoves, relative \in BOOLEAN : move(joints, relative)

NextMove == Connect \/ MoveAny \/ Acknowledge \/ ReadLine

SpecMove == Init /\ [][NextMove]_vars

\* Commands on a serial or http client whose controller prints startup lines
\* while connect opens the port.
NextBoot ==
    \/ ConnectBoot \/ Disconnect
    \/ SendCommand \/ Status
    \/ ReadLine \/ ReadTimeout
    \/ Emit \/ Tick

SpecBoot == Init /\ [][NextBoot]_vars

\* A command or a wait_for_idle on a client whose thread keeps running while
\* time advances: the clock ticks, and the loop tests and the sleep of the
\* operation in progress are taken.
NextLive ==
    \/ Connect \/ SendCommand \/ WaitForIdle
    \/ WaitCheck \/ Sleep \/ ReadLine \/ ReadTimeout
    \/ Emit \/ Tick

\* ReadTimeout is enabled exactly when its guard holds: Complete is total and
\* the step always changes pc.  Its weak fairness is written with that guard.
FairReadTimeout ==
    \/ []<>~(pc = "read" /\ clock >= timeout_end)
    \/ []<><<ReadTimeout>>_vars

SpecLive ==
    /\ Init /\ [][NextLive]_vars
    /\ WF_vars(Tick)
    /\ WF_vars(WaitCheck)
    /\ WF_vars(Sleep)
    /\ FairReadTimeout

----------------------------------------------------------------------------
\* Properties.

NoHandle == serial_ = 0 /\ http_client = 0

\* the last call was a command sent over the serial line, and it has returned
SerialCommandReturned ==
    /\ mode = "serial"
    /\ op = "none"
    /\ nwrites = 1
    /\ written # SerialFrame(CmdStatus)

\* C1: a serial send_command that received no line starting with "ok" or
\* "error:" before its timeout, whatever else it received, returns
\* {success: false, message: "No response from controller"}.
C1_NoTerminatorGivesNoResponse ==
    (/\ SerialCommandReturned
     /\ \A i \in 1..Len(response_lines) :
           ~StartsWith(response_lines[i], OkMarker)
           /\ ~StartsWith(response_lines[i], ErrorMarker))
    => result = CommandResult(FALSE, NoResponseMessage)

\* C2: at most one transport handle opened by the client is open at a time,
\* also when connect is called on a client that is connected, as a cli
\* command does.
C2_AtMostOneHandleOpen == Cardinality(isOpen) <= 1

\* C3: once disconnect (or the exit of the with block) has run, no handle the
\* client opened remains open.
C3_ReleasedAfterDisconnect ==
    (op = "none" /\ NoHandle /\ result = ReturnsNone) => isOpen = {}

\* C4: wait_for_idle returns true at the first status poll that reports
\* moving = false and issues no status query after it: every earlier poll
\* reported moving = true, and k polls took exactly k status queries.
C4_IdleAtFirstNotMoving ==
    /\ \A i \in 1..(Len(seen) - 1) : seen[i] = TRUE
    /\ (seen # <<>> /\ seen[Len(seen)] = FALSE) =>
          /\ op = "none"
          /\ result = [kind |-> "bool", value |-> TRUE]
          /\ nwrites = Len(seen)
    /\ (op = "none" /\ result = [kind |-> "bool", value |-> TRUE]) =>
          /\ seen # <<>>
          /\ seen[Len(seen)] = FALSE
          /\ nwrites = Len(seen)

\* C4: polls reporting true, true, false ended in true after three queries
C4_ThreePolls ==
    /\ seen = <<TRUE, TRUE, FALSE>>
    /\ result = [kind |-> "bool", value |-> TRUE]
    /\ nwrites = 3
    /\ op = "none"

\* a call of one of the operations that return after one exchange
Calls ==
    \/ SendCommand \/ Enable \/ Disable \/ EmergencyStop \/ Home \/ Move
    \/ Status \/ GetPositions

\* nothing is written and the client is as it was
Untouched ==
    /\ written' = written
    /\ nwrites' = 0
    /\ UNCHANGED <<mode, flushed, serial_, http_client, opened, isOpen, closeCalls>>

\* C5: every operation that talks to the controller, invoked while no
\* transport handle is open, raises the not-connected error, writes nothing and
\* leaves the client unchanged.
C5_NotConnectedAlwaysRaises ==
    [][(NoHandle /\ (Calls \/ WaitCheck))
          => (result' = Raise("RuntimeError") /\ Untouched)]_vars

\* C5, amended: as above, except that wait_for_idle raises only if its deadline
\* has not passed when it first tests it; if it has (a timeout of 0, say) it
\* returns false, still writing nothing and leaving the client unchanged.
C5_NotConnectedRaisesWhenQueried ==
    [][(NoHandle /\ (Calls \/ WaitForIdle \/ WaitCheck))
          => /\ Untouched
             /\ IF op = "none" /\ op' = "wait_for_idle"
                THEN result' = NoResult
                ELSE IF op = "wait_for_idle" /\ ~(clock < end_time)
                THEN result' = [kind |-> "bool", value |-> FALSE]
                ELSE result' = Raise("RuntimeError")]_vars

\* C5: an operation on a client without a handle has raised
C5_RaisedNotConnected ==
    /\ NoHandle
    /\ op = "none"
    /\ result = Raise("RuntimeError")
    /\ written = <<>>
    /\ nwrites = 0

\* C6: disconnect raises nothing, leaves no handle held, closes no handle
\* twice, and on a client that holds no handle changes nothing.
C6_DisconnectIdempotent ==
    /\ [](\A h \in Handles : closeCalls[h] <= 1)
    /\ [][Disconnect
            => /\ NoHandle'
               /\ result' = ReturnsNone
               /\ NoHandle => UNCHANGED <<mode, flushed, opened, isOpen, closeCalls>>]_vars

\* C6: a client that connected is disconnected, its handle closed once
C6_Disconnected ==
    /\ opened >= 1
    /\ NoHandle
    /\ op = "none"
    /\ result = ReturnsNone
    /\ closeCalls[1] = 1
    /\ 1 \notin isOpen

\* C7: a serial send_command that captured at least one line returns the lines
\* joined by newlines as its message, with success false exactly if the last
\* line starts with "error:"; home() answered by "ok" returns
\* {success: true, message: "ok"}.
C7_ResultFromCapturedLines ==
    /\ (SerialCommandReturned /\ response_lines # <<>>) =>
          /\ result.kind = "dict"
          /\ result.message = Join(response_lines)
          /\ result.success = ~StartsWith(response_lines[Len(response_lines)], ErrorMarker)
    /\ (/\ SerialCommandReturned
        /\ written = SerialFrame(CmdHome)
        /\ response_lines = << <<"o", "k">> >>) =>
          result = [kind |-> "dict", success |-> TRUE, message |-> <<"o", "k">>]

\* C7: home() was answered by "busy" and then "error:9"
C7_HomeRefused ==
    /\ SerialCommandReturned
    /\ written = SerialFrame(CmdHome)
    /\ response_lines = << <<"b", "u", "s", "y">>, <<"e", "r", "r", "o", "r", ":", "9">> >>
    /\ result = [kind |-> "dict", success |-> FALSE,
                 message |-> <<"b", "u", "s", "y", NL, "e", "r", "r", "o", "r", ":", "9">>]

\* a serial send_command ran into its timeout with no line captured
TimedOutEmpty == SerialCommandReturned /\ response_lines = <<>>

\* C8: a serial send_command whose timeout passes with no line captured
\* returns {success: false, message: "No response from controller"} as a
\* value; the handle is still open and the next command goes out on it.
C8_NoResponseIsRecoverable ==
    TimedOutEmpty =>
        /\ result = CommandResult(FALSE, NoResponseMessage)
        /\ serial_ # 0
        /\ serial_ \in isOpen
        /\ ENABLED (Enable /\ pc' = "read" /\ written' = SerialFrame(CmdEnable))

\* C8: home() got no answer and the client is still connected
C8_HomeUnanswered ==
    /\ TimedOutEmpty
    /\ written = SerialFrame(CmdHome)
    /\ result.kind = "dict"
    /\ result.success = FALSE
    /\ serial_ \in isOpen

\* the command text that move sent: the serial frame without its newline, or
\* the command of the http payload
MoveSent ==
    IF mode = "serial" THEN SubSeq(written, 1, Len(written) - 1)
    ELSE written.command

\* the joints that the move in args gave a value
Given == {i \in 1..6 : args.joints[i] # None}

\* tok is " J{i}:{value}" without the blank, for a given joint i and its value
IsTokenOf(tok, i) ==
    LET pr == IF tok = <<>> THEN <<>> ELSE SplitOn(Tail(tok), ":")
    IN  /\ tok # <<>>
        /\ Head(tok) = "J"
        /\ Len(pr) = 2
        /\ pr[1] = <<Digits[i + 1]>>
        /\ IsIntText(pr[2])
        /\ Head(pr[2]) # "+"
        /\ ParseInt(pr[2]) = args.joints[i][1]

\* C9: the command that move sends is "G0" (absolute) or "G1" (relative)
\* followed by one " J{i}:{value}" token for each joint given a value, in
\* ascending order of the 1-based joint index, and by no other token.
C9_MoveEncodesGivenJoints ==
    (nwrites = 1 /\ Len(args.joints) = 6) =>
        LET toks == SplitOn(MoveSent, " ")
            order == [k \in 1..(Len(toks) - 1) |->
                        CHOOSE i \in 0..6 :
                           \/ i \in Given /\ IsTokenOf(toks[k + 1], i)
                           \/ i = 0 /\ \A j \in Given : ~IsTokenOf(toks[k + 1], j)]
        IN  /\ mode = "serial" => written[Len(written)] = NL
            /\ toks[1] = IF args.relative THEN <<"G", "1">> ELSE <<"G", "0">>
            /\ Len(toks) = 1 + Cardinality(Given)
            /\ \A k \in 1..(Len(toks) - 1) : order[k] \in Given
            /\ \A k \in 1..(Len(toks) - 2) : order[k] < order[k + 1]
            /\ (args.joints = <<None, Some(500), None, Some(0), None, None>>
                /\ args.relative) =>
                  MoveSent = <<"G", "1", " ", "J", "2", ":", "5", "0", "0",
                               " ", "J", "4", ":", "0">>
            /\ Given = {} => MoveSent \in {<<"G", "0">>, <<"G", "1">>}

\* C9: a relative move of joints 2 and 4 went out on the serial port
C9_MoveTwoJoints ==
    /\ mode = "serial"
    /\ args = [joints |-> <<None, Some(500), None, Some(0), None, None>>,
               relative |-> TRUE]
    /\ written = <<"G", "1", " ", "J", "2", ":", "5", "0", "0",
                   " ", "J", "4", ":", "0", NL>>

\* a status reply line of the form "<FLAGS> P:<v1,...,v6>"
IsQuickStatus(line) ==
    LET parts == SplitOn(line, " ")
    IN  /\ Len(parts) = 2
        /\ parts[1] # <<>>
        /\ StartsWith(parts[2], <<"P", ":">>)
        /\ LET vals == SplitOn(SubSeq(parts[2], 3, Len(parts[2])), ",")
           IN  /\ Len(vals) = 6
               /\ \A i \in 1..6 : IsIntText(vals[i])

\* what C10 expects status() to return for such a line
QuickStatusOf(line) ==
    LET parts == SplitOn(line, " ")
        vals == SplitOn(SubSeq(parts[2], 3, Len(parts[2])), ",")
    IN  [kind |-> "status",
         enabled |-> Contains(parts[1], "E"),
         moving |-> Contains(parts[1], "M"),
         positions |-> (<<"j", "1">> :> ParseInt(vals[1]))
                       @@ (<<"j", "2">> :> ParseInt(vals[2]))
                       @@ (<<"j", "3">> :> ParseInt(vals[3]))
                       @@ (<<"j", "4">> :> ParseInt(vals[4]))
                       @@ (<<"j", "5">> :> ParseInt(vals[5]))
                       @@ (<<"j", "6">> :> ParseInt(vals[6])),
         targets |-> <<>>,
         distances |-> <<>>,
         ip |-> None,
         uptime |-> None]

\* C10: on the serial transport, status() answered by a line
\* "<FLAGS> P:<v1,...,v6>" returns enabled = (E in FLAGS), moving = (M in
\* FLAGS), positions j1..j6 = v1..v6 in order, and empty targets and
\* distances; "EM P:0,500,1000,0,0,0" gives enabled and moving true,
\* "- P:10,20,30,40,50,60" gives both false with the positions filled in.
C10_QuickStatusParsed ==
    [][(/\ mode = "serial"
        /\ op = "status"
        /\ op' = "none"
        /\ response_lines' # <<>>
        /\ IsQuickStatus(response_lines'[1]))
          => /\ result' = QuickStatusOf(response_lines'[1])
             /\ response_lines'[1] = Strip(LineStatusEM) =>
                   /\ result'.enabled /\ result'.moving
                   /\ result'.positions =
                         (<<"j", "1">> :> 0) @@ (<<"j", "2">> :> 500)
                         @@ (<<"j", "3">> :> 1000) @@ (<<"j", "4">> :> 0)
                         @@ (<<"j", "5">> :> 0) @@ (<<"j", "6">> :> 0)
             /\ response_lines'[1] = Strip(LineStatusIdle) =>
                   /\ ~result'.enabled /\ ~result'.moving
                   /\ result'.positions =
                         (<<"j", "1">> :> 10) @@ (<<"j", "2">> :> 20)
                         @@ (<<"j", "3">> :> 30) @@ (<<"j", "4">> :> 40)
                         @@ (<<"j", "5">> :> 50) @@ (<<"j", "6">> :> 60)]_vars

\* C10: status() was answered by "EM P:0,500,1000,0,0,0" and "ok"
C10_StatusEnabledMoving ==
    /\ mode = "serial"
    /\ op = "none"
    /\ written = SerialFrame(CmdStatus)
    /\ response_lines = <<Strip(LineStatusEM), <<"o", "k">> >>
    /\ result.kind = "status"
    /\ result.enabled
    /\ result.moving
    /\ result.positions[<<"j", "2">>] = 500
    /\ result.positions[<<"j", "3">>] = 1000
    /\ result.targets = <<>>
    /\ result.distances = <<>>

\* the joint ids j1..j6
JointIds == {<<"j", Digits[i + 1]>> : i \in 1..6}

\* C11: every status record that status() returns on the serial transport has
\* the keys of its positions, targets and distances among j1..j6, however many
\* values the controller puts after "P:".
C11_KeysAreJointIds ==
    (mode = "serial" /\ result.kind = "status") =>
        /\ DOMAIN result.positions \subseteq JointIds
        /\ DOMAIN result.targets \subseteq JointIds
        /\ DOMAIN result.distances \subseteq JointIds

\* C12: a client whose URL scheme is none of serial, http and https is
\* rejected with an error when it is constructed, with no handle opened and
\* nothing attempted; the transport kind of a constructed client never changes.
C12_SchemeFixedAtConstruction ==
    /\ [](mode = "unsupported" =>
             /\ result = Raise("ValueError")
             /\ opened = 0
             /\ isOpen = {}
             /\ NoHandle
             /\ nwrites = 0
             /\ op = "none")
    /\ [][mode' = mode]_vars

\* C12: the construction for ftp://host was rejected
C12_Rejected ==
    /\ mode = "unsupported"
    /\ result = Raise("ValueError")
    /\ opened = 0
    /\ written = <<>>

\* the step wrote `text`, and nothing else, to the transport of the client
SentIs(text) ==
    /\ nwrites' = 1
    /\ IF mode = "serial" THEN written' = text \o <<NL>>
       ELSE written' = [command |-> text]

\* C13: on a connected client, whatever went before, enable, disable,
\* emergency_stop and home send exactly "M17", "M18", "M112" and "G28", and
\* send_command(raw) sends raw as it is; on serial the text is followed by one
\* newline and nothing else.
C13_FixedCommandTexts ==
    [][~NoHandle =>
          /\ Enable => SentIs(<<"M", "1", "7">>)
          /\ Disable => SentIs(<<"M", "1", "8">>)
          /\ EmergencyStop => SentIs(<<"M", "1", "1", "2">>)
          /\ Home => SentIs(<<"G", "2", "8">>)
          /\ SendCommand => \E raw \in RawCommands : SentIs(raw)]_vars

\* C13: disable() went out on the second connection of a serial client
C13_DisableSent ==
    /\ mode = "serial"
    /\ opened = 2
    /\ op = "command"
    /\ nwrites = 1
    /\ written = <<"M", "1", "8", NL>>

\* `line` starts with "ok" or with "error:"
Terminates(line) ==
    \/ StartsWith(line, <<"o", "k">>)
    \/ StartsWith(line, <<"e", "r", "r", "o", "r", ":">>)

\* C14: within a serial exchange the read loop stops at the first line that
\* starts with "ok" or "error:": no captured line before the last one is such
\* a line, the step that reads one ends the exchange and takes that line only,
\* and while no call is in progress nothing is taken from the input buffer, so
\* what the controller prints afterwards stays there.
C14_StopsAtFirstTerminator ==
    /\ [](mode = "serial" =>
             /\ \A i \in 1..(Len(response_lines) - 1) : ~Terminates(response_lines[i])
             /\ (pc = "read" /\ response_lines # <<>>) =>
                   ~Terminates(response_lines[Len(response_lines)]))
    /\ [][(pc = "read" /\ response_lines' # response_lines
           /\ Terminates(response_lines'[Len(response_lines')]))
             => /\ pc' # "read"
                /\ inbuf' = Tail(inbuf)
                /\ op = "command" =>
                      /\ op' = "none"
                      /\ result'.message = Join(response_lines')]_vars
    /\ [][(op = "none" /\ op' = "none" /\ serial_' = serial_ /\ serial_ # 0)
             => \/ inbuf' = inbuf
                \/ \E line \in ControllerLines : inbuf' = Append(inbuf, line)]_vars

\* C14: a command ended on "ok" and the controller has printed a line since
C14_LineLeftInBuffer ==
    /\ mode = "serial"
    /\ op = "none"
    /\ nwrites = 1
    /\ response_lines # <<>>
    /\ Terminates(response_lines[Len(response_lines)])
    /\ result.kind = "dict"
    /\ inbuf = <<LineBusy>>

\* C15: nothing is retried: a call of send_command, enable, disable,
\* emergency_stop, move or home writes its command once, also when the
\* exchange times out or is answered by an error, and each poll of
\* wait_for_idle makes one status query.
C15_NoRetry ==
    /\ [](op = "command" => nwrites = 1)
    /\ []((op = "none" /\ result.kind = "dict") => nwrites = 1)
    /\ [](op = "wait_for_idle" =>
             nwrites = Len(seen) + (IF pc = "read" THEN 1 ELSE 0))
    /\ [][op # "none" =>
             \/ nwrites' = nwrites /\ written' = written
             \/ /\ op = "wait_for_idle" /\ pc = "wcheck" /\ clock < end_time
                /\ nwrites' = nwrites + 1]_vars

\* C15: home() was answered by "error:9" and was written once
C15_ErrorNotRetried ==
    /\ SerialCommandReturned
    /\ written = SerialFrame(CmdHome)
    /\ response_lines = << <<"e", "r", "r", "o", "r", ":", "9">> >>
    /\ result.kind = "dict"
    /\ result.success = FALSE
    /\ nwrites = 1

\* C16: every serial send_command on a connected client returns, whatever the
\* controller prints or fails to print: the deadline is fixed when the command
\* is written and the read loop is left once it has passed.
C16_SerialCommandTerminates ==
    /\ (mode = "serial" /\ op = "command") ~> (op = "none")
    /\ [][(pc = "read" /\ pc' = "read") => timeout_end' = timeout_end]_vars
    /\ [](pc = "read" => timeout_end <= clock + Timeout)

\* C16: a command returned on its deadline after the controller printed
\* nothing but "busy"
C16_ReturnedWhileBusy ==
    /\ SerialCommandReturned
    /\ response_lines # <<>>
    /\ \A i \in 1..Len(response_lines) : response_lines[i] = <<"b", "u", "s", "y">>
    /\ Len(response_lines) = MaxLines
    /\ result.kind = "dict"

\* every poll of the wait_for_idle in progress reported moving
AllMoving == \A i \in 1..Len(seen) : seen[i] = TRUE

\* no status query starts once the deadline has passed, and wait_for_idle
\* comes to an end
NoQueryAfterDeadline ==
    [][(op = "wait_for_idle" /\ clock >= end_time) => nwrites' = nwrites]_vars

WaitTerminates == (op = "wait_for_idle") ~> (op = "none")

\* C17: wait_for_idle returns false when its deadline is reached while every
\* poll so far reported moving, starts no status query after the deadline, and
\* always terminates.
C17_FalseOnceDeadlineReached ==
    /\ [][(/\ op = "wait_for_idle" /\ op' = "none"
           /\ clock >= end_time
           /\ AllMoving
           /\ result'.kind = "bool")
             => result'.value = FALSE]_vars
    /\ NoQueryAfterDeadline
    /\ WaitTerminates

\* C17, amended: the deadline is tested before each poll only.  When that test
\* finds it reached, wait_for_idle returns false, every poll having reported
\* moving, and no status query starts after the deadline; a poll that started
\* before the deadline is completed whenever it ends.  wait_for_idle always
\* terminates.
C17_FalseAtLoopTest ==
    /\ [][(WaitCheck /\ clock >= end_time)
             => /\ op' = "none"
                /\ result' = [kind |-> "bool", value |-> FALSE]
                /\ nwrites' = nwrites]_vars
    /\ [](op = "wait_for_idle" => AllMoving)
    /\ []((op = "none" /\ result = [kind |-> "bool", value |-> FALSE])
             => AllMoving /\ nwrites = Len(seen))
    /\ [][(op = "wait_for_idle" /\ op' = "wait_for_idle") => end_time' = end_time]_vars
    /\ NoQueryAfterDeadline
    /\ WaitTerminates

\* C17: wait_for_idle gave up after two polls that reported moving
C17_GaveUp ==
    /\ op = "none"
    /\ result = [kind |-> "bool", value |-> FALSE]
    /\ seen = <<TRUE, TRUE>>
    /\ nwrites = 2

\* the lines of a message, as text
MessageLines(message) == SplitOn(message, NL)

\* the text of the lines that connect discarded and that the controller
\* prints at startup only
FlushedText ==
    {Strip(flushed[i]) : i \in 1..Len(flushed)}
        \ {Strip(line) : line \in ControllerLines}

\* C18: on the serial transport, what the controller printed before connect
\* returned is discarded: the input buffer is empty when connect returns, and
\* no startup line is in the buffer, in the captured lines or in the message
\* of the first or of a later command on that connection.
C18_StartupOutputDiscarded ==
    /\ [][serial_' # serial_ => inbuf' = <<>>]_vars
    /\ [](mode = "serial" =>
             /\ \A i \in 1..Len(inbuf) : Strip(inbuf[i]) \notin FlushedText
             /\ \A i \in 1..Len(response_lines) :
                   response_lines[i] \notin FlushedText
             /\ result.kind = "dict" =>
                   \A i \in 1..Len(MessageLines(result.message)) :
                      MessageLines(result.message)[i] \notin FlushedText)

\* C18: the controller printed startup lines while connect ran, and a command
\* on that connection has returned what the controller answered to it
C18_AnsweredAfterBoot ==
    /\ mode = "serial"
    /\ flushed = <<LineBoot, LineOk>>
    /\ op = "none"
    /\ nwrites = 1
    /\ written = SerialFrame(<<"G", "9", "2">>)
    /\ response_lines = << <<"b", "u", "s", "y">>, <<"o", "k">> >>
    /\ result.kind = "dict"
    /\ result.message = <<"b", "u", "s", "y", NL, "o", "k">>

\* C19: on the serial transport, with one command after another, the result of
\* a command is built only from lines the controller printed in reply to that
\* command.  The controller prints a status line in reply to "?" only, so no
\* status line is among the lines captured for any other command.
C19_OnlyOwnReplies ==
    (mode = "serial" /\ nwrites >= 1 /\ written # SerialFrame(CmdStatus)) =>
        \A i \in 1..Len(response_lines) :
           response_lines[i] \notin {Strip(line) : line \in StatusLines}

\* `line` is a status line of the controller whose flags lack "M"
IsIdleStatusLine(line) ==
    /\ line \in {Strip(l) : l \in StatusLines}
    /\ ~Contains(SplitOn(line, " ")[1], "M")

\* C20: on the serial transport, wait_for_idle returns true only if a status
\* query captured a status line of the controller whose flags lack "M"; a
\* query that timed out with no response, or that was answered by an "error:"
\* line, does not make it return true.
C20_IdleOnlyFromStatusLine ==
    (mode = "serial" /\ op = "none" /\ result = [kind |-> "bool", value |-> TRUE]) =>
        \E i \in 1..Len(response_lines) : IsIdleStatusLine(response_lines[i])

====
